---- MODULE Spec2Model ----
(***************************************************************************)
(* gitph: the interactive menu loop (src/ui/menus.rs) and the two          *)
(* workflows it orchestrates, "snd" (add, commit, push) and "rls" (snd,    *)
(* then tag, push tag, GitHub release), together with the wrappers around  *)
(* the git executable (src/git_wrapper) and the GitHub client              *)
(* (src/api_client/github.rs).                                             *)
(*                                                                         *)
(* Text is a sequence of one-character strings.  An external command is a  *)
(* nondeterministic choice of its outcome: it could not be spawned, it     *)
(* exited non-zero, or it exited zero with some output.                    *)
(***************************************************************************)
EXTENDS Integers, Sequences, FiniteSets, TLC

\* ------------------------------------------------------------------------
\* Bounds of the model
\* ------------------------------------------------------------------------

\* longest text typed at a prompt
MaxLen == 2

\* most file lines in a status report
MaxFiles == 2

\* ------------------------------------------------------------------------
\* Text helpers (Rust str methods used by the source)
\* ------------------------------------------------------------------------

Whitespace == {" ", "\t", "\n", "\r"}

SeqsUpTo(S, n) == UNION {[1..k -> S] : k \in 0..n}

\* s[from..]
Drop(s, n) == SubSeq(s, n + 1, Len(s))

\* s[..n]
Take(s, n) == SubSeq(s, 1, n)

starts_with(s, p) == Len(p) <= Len(s) /\ Take(s, Len(p)) = p

ends_with(s, p) == Len(p) <= Len(s) /\ Drop(s, Len(s) - Len(p)) = p

\* str::trim_start
RECURSIVE trim_start(_)
trim_start(s) ==
    IF s # <<>> /\ Head(s) \in Whitespace THEN trim_start(Tail(s)) ELSE s

\* str::trim_end
RECURSIVE trim_end(_)
trim_end(s) ==
    IF s # <<>> /\ s[Len(s)] \in Whitespace THEN trim_end(Take(s, Len(s) - 1)) ELSE s

\* str::trim
trim(s) == trim_end(trim_start(s))

\* the mutant of IsBlank: the text is only compared with the empty text
IsBlankNoTrim(s) == s = <<>>

\* s.trim().is_empty()
IsBlank(s) == trim(s) = <<>>

\* str::find: the first index (1-based) where sep occurs in s, 0 when absent
find(s, sep) ==
    LET hits == {i \in 1..(Len(s) - Len(sep) + 1) : SubSeq(s, i, i + Len(sep) - 1) = sep}
    IN IF hits = {} THEN 0 ELSE CHOOSE i \in hits : \A j \in hits : i <= j

\* str::split_once: [found, left, right]
split_once(s, sep) ==
    LET i == find(s, sep)
    IN IF i = 0 THEN [found |-> FALSE, left |-> <<>>, right |-> <<>>]
       ELSE [found |-> TRUE, left |-> Take(s, i - 1), right |-> Drop(s, i - 1 + Len(sep))]

\* str::lines: split at "\n", a "\r" before the "\n" is dropped, no final
\* empty line
RECURSIVE lines(_)
lines(text) ==
    IF text = <<>> THEN <<>>
    ELSE LET i == find(text, <<"\n">>)
         IN IF i = 0 THEN <<text>>
            ELSE LET raw == Take(text, i - 1)
                     ln  == IF raw # <<>> /\ raw[Len(raw)] = "\r"
                            THEN Take(raw, Len(raw) - 1) ELSE raw
                 IN <<ln>> \o lines(Drop(text, i))

\* the text of the given lines, each ended by "\n"
RECURSIVE JoinLines(_)
JoinLines(ls) ==
    IF ls = <<>> THEN <<>> ELSE Head(ls) \o <<"\n">> \o JoinLines(Tail(ls))

\* a character that UTF-8 encodes in two bytes
EAcute == "U+00E9"

\* char::len_utf8
len_utf8(c) == IF c = EAcute THEN 2 ELSE 1

\* str::len: the length in bytes
RECURSIVE byte_len(_)
byte_len(s) == IF s = <<>> THEN 0 ELSE len_utf8(Head(s)) + byte_len(Tail(s))

\* the number of characters that make the first n bytes of s, -1 when byte n
\* is not a character boundary (str::is_char_boundary)
RECURSIVE chars_in_bytes(_, _)
chars_in_bytes(s, n) ==
    IF n = 0 THEN 0
    ELSE IF s = <<>> \/ len_utf8(Head(s)) > n THEN -1
    ELSE LET k == chars_in_bytes(Tail(s), n - len_utf8(Head(s)))
         IN IF k = -1 THEN -1 ELSE k + 1

\* ------------------------------------------------------------------------
\* Results (anyhow::Result): Ok(v) or Err(message)
\* ------------------------------------------------------------------------

Ok(v) == [kind |-> "Ok", v |-> v, msg |-> ""]

Err(m) == [kind |-> "Err", v |-> FALSE, msg |-> m]

NoResult == [kind |-> "none", v |-> FALSE, msg |-> ""]

\* the thread panics: no value is returned
Panic(m) == [kind |-> "Panic", v |-> FALSE, msg |-> m]

\* Option<String>
Some(t) == [tag |-> "Some", val |-> t]

None == [tag |-> "None", val |-> <<>>]

\* how an external command ends
SpawnFail == "spawn_fail"

NonZero == "nonzero"

ExitOk == "ok"

CmdOutcomes == {SpawnFail, NonZero, ExitOk}

\* ------------------------------------------------------------------------
\* src/git_wrapper/status.rs
\* ------------------------------------------------------------------------

Absent == "None"

\* the mutant of parse_status_char: the untracked code is not known
parse_status_char_no_untracked(c) ==
    CASE c = "A" -> "Added"
      [] c = "M" -> "Modified"
      [] c = "D" -> "Deleted"
      [] c = "R" -> "Renamed"
      [] c = "C" -> "Copied"
      [] c = "T" -> "TypeChanged"
      [] c = "U" -> "Unmerged"
      [] OTHER   -> Absent

\* the mutant of parse_status_char: only the codes of the short format's
\* common cases are known
parse_status_char_common(c) ==
    CASE c = "A" -> "Added"
      [] c = "M" -> "Modified"
      [] c = "D" -> "Deleted"
      [] c = "R" -> "Renamed"
      [] c = "?" -> "Untracked"
      [] OTHER   -> Absent

parse_status_char(c) ==
    CASE c = "A" -> "Added"
      [] c = "M" -> "Modified"
      [] c = "D" -> "Deleted"
      [] c = "R" -> "Renamed"
      [] c = "C" -> "Copied"
      [] c = "T" -> "TypeChanged"
      [] c = "U" -> "Unmerged"
      [] c = "?" -> "Untracked"
      [] c = " " -> Absent
      [] OTHER   -> Absent

RenameSep == <<" ", "-", ">", " ">>

RenamedFrom == <<" ", "(", "r", "e", "n", "o", "m", "e", "a", "d", "o", " ", "d", "e", " ">>

\* the mutant of file_status: a rename is pushed like any other line
file_status_plain(path, staged_char, unstaged_char) ==
    [path |-> path,
     staged_status |-> parse_status_char(staged_char),
     unstaged_status |-> parse_status_char(unstaged_char)]

\* the mutant of file_status: a rename without " -> " loses its path
file_status_rename_strict(path, staged_char, unstaged_char) ==
    LET paths == split_once(path, RenameSep)
    IN IF staged_char = "R" \/ unstaged_char = "R"
       THEN [path |-> IF paths.found
                      THEN paths.right \o RenamedFrom \o paths.left \o <<")">> ELSE <<>>,
             staged_status |-> parse_status_char(staged_char),
             unstaged_status |-> parse_status_char(unstaged_char)]
       ELSE [path |-> path,
             staged_status |-> parse_status_char(staged_char),
             unstaged_status |-> parse_status_char(unstaged_char)]

\* the mutant of file_status: the second code of an untracked file is left out
file_status_untracked_once(path, staged_char, unstaged_char) ==
    [path |-> path,
     staged_status |-> parse_status_char(staged_char),
     unstaged_status |-> IF staged_char = "?" THEN Absent ELSE parse_status_char(unstaged_char)]

\* the record pushed for a line, given its path field and its two codes
file_status(path, staged_char, unstaged_char) ==
    LET paths == split_once(path, RenameSep)
    IN IF (staged_char = "R" \/ unstaged_char = "R") /\ paths.found
       THEN [path |-> paths.right \o RenamedFrom \o paths.left \o <<")">>,
             staged_status |-> parse_status_char(staged_char),
             unstaged_status |-> parse_status_char(unstaged_char)]
       ELSE [path |-> path,
             staged_status |-> parse_status_char(staged_char),
             unstaged_status |-> parse_status_char(unstaged_char)]

\* the body of the loop over the file lines: the records of one line, or the
\* panic of split_at(2) off a character boundary or of unwrap() on a code of
\* one character
parse_line(line) ==
    IF byte_len(line) < 4 THEN [panic |-> FALSE, recs |-> <<>>]
    ELSE LET k == chars_in_bytes(line, 2)
         IN IF k = -1 THEN [panic |-> TRUE, recs |-> <<>>]
            ELSE IF k < 2 THEN [panic |-> TRUE, recs |-> <<>>]
            ELSE [panic |-> FALSE,
                  recs |-> << file_status(trim_start(Drop(line, k)), line[1], line[2]) >>]

\* the mutant of parse_lines: the records are pushed at the front
RECURSIVE parse_lines_reversed(_)
parse_lines_reversed(ls) ==
    IF ls = <<>> THEN [panic |-> FALSE, recs |-> <<>>]
    ELSE LET first == parse_line(Head(ls))
             rest  == parse_lines_reversed(Tail(ls))
         IN IF first.panic \/ rest.panic THEN [panic |-> TRUE, recs |-> <<>>]
            ELSE [panic |-> FALSE, recs |-> rest.recs \o first.recs]

\* the loop over the file lines
RECURSIVE parse_lines(_)
parse_lines(ls) ==
    IF ls = <<>> THEN [panic |-> FALSE, recs |-> <<>>]
    ELSE LET first == parse_line(Head(ls))
             rest  == parse_lines(Tail(ls))
         IN IF first.panic \/ rest.panic THEN [panic |-> TRUE, recs |-> <<>>]
            ELSE [panic |-> FALSE, recs |-> first.recs \o rest.recs]

BranchPrefix == <<"#", "#", " ">>

EmptyStatus == [branch_info |-> <<>>, files |-> <<>>]

\* the mutant of parse_porcelain_output: an empty output is refused
parse_porcelain_output_strict(output) ==
    LET ls == lines(output)
    IN IF ls = <<>> THEN Err("status vazio")
       ELSE Ok([branch_info |-> IF starts_with(Head(ls), BranchPrefix)
                                THEN Drop(Head(ls), Len(BranchPrefix)) ELSE Head(ls),
                files |-> parse_lines(Tail(ls)).recs])

parse_porcelain_output(output) ==
    LET ls == lines(output)
    IN IF ls = <<>> THEN Ok(EmptyStatus)
       ELSE LET files == parse_lines(Tail(ls))
            IN IF files.panic THEN Panic("parse_porcelain_output")
               ELSE Ok([branch_info |-> IF starts_with(Head(ls), BranchPrefix)
                                        THEN Drop(Head(ls), Len(BranchPrefix)) ELSE Head(ls),
                        files |-> files.recs])

\* get_status: the outcome of `git status --porcelain=v1 --branch`
get_status(outcome, stdout) ==
    IF outcome = SpawnFail THEN Err("Falha ao executar o comando 'git status'")
    ELSE IF outcome = NonZero THEN Err("O comando 'git status' falhou")
    ELSE parse_porcelain_output(stdout)

\* ------------------------------------------------------------------------
\* src/git_wrapper/commit.rs, push.rs, tag.rs
\* ------------------------------------------------------------------------

add_all(outcome) ==
    IF outcome = SpawnFail THEN Err("Falha ao executar o comando 'git add'")
    ELSE IF outcome = NonZero THEN Err("O comando 'git add .' falhou")
    ELSE Ok(TRUE)

\* whether commit(message) reaches Command::new("git")
commit_spawns(message) == ~IsBlank(message)

commit(message, outcome) ==
    IF IsBlank(message) THEN Err("A mensagem de commit nao pode ser vazia")
    ELSE IF outcome = SpawnFail THEN Err("Falha ao executar o comando 'git commit'")
    ELSE IF outcome = NonZero THEN Err("O comando 'git commit' falhou")
    ELSE Ok(TRUE)

\* the mutant of push: the failure texts of commit pasted into push
push_commit_text(outcome, stdout, stderr) ==
    IF outcome = SpawnFail THEN Err("Falha ao executar o comando 'git commit'")
    ELSE IF outcome = NonZero THEN Err("O comando 'git commit' falhou")
    ELSE Ok(trim(stderr))

\* the mutant of push: the primary output is returned when there is some
push_stdout_first(outcome, stdout, stderr) ==
    IF outcome = SpawnFail THEN Err("Falha ao executar o comando 'git push'")
    ELSE IF outcome = NonZero THEN Err("O comando 'git push' falhou")
    ELSE Ok(IF trim(stdout) # <<>> THEN trim(stdout) ELSE trim(stderr))

\* push: the outcome of `git push` and what it wrote on its two streams
push(outcome, stdout, stderr) ==
    IF outcome = SpawnFail THEN Err("Falha ao executar o comando 'git push'")
    ELSE IF outcome = NonZero THEN Err("O comando 'git push' falhou")
    ELSE Ok(trim(stderr))

create_annotated_tag_spawns(tag_name, message) == ~IsBlank(tag_name) /\ ~IsBlank(message)

create_annotated_tag(tag_name, message, outcome) ==
    IF IsBlank(tag_name) THEN Err("O nome da tag nao pode ser vazio")
    ELSE IF IsBlank(message) THEN Err("A mensagem de anotacao da tag nao pode ser vazia")
    ELSE IF outcome = SpawnFail THEN Err("Falha ao executar o comando 'git tag'")
    ELSE IF outcome = NonZero THEN Err("Falha ao criar a tag")
    ELSE Ok(TRUE)

push_tag_spawns(tag_name) == ~IsBlank(tag_name)

push_tag(tag_name, outcome) ==
    IF IsBlank(tag_name) THEN Err("O nome da tag a ser enviada nao pode ser vazio")
    ELSE IF outcome = SpawnFail THEN Err("Falha ao executar o comando 'git push' para a tag")
    ELSE IF outcome = NonZero THEN Err("Falha ao enviar a tag para o remoto")
    ELSE Ok(TRUE)

\* ------------------------------------------------------------------------
\* src/git_wrapper/remote.rs
\* ------------------------------------------------------------------------

\* get_origin_url: the outcome of `git config --get remote.origin.url`
get_origin_url(outcome, stdout) ==
    IF outcome = SpawnFail THEN Err("Falha ao executar 'git config' para obter a URL do remoto")
    ELSE IF outcome = NonZero THEN Err("Nao foi possivel encontrar a URL do remoto 'origin'")
    ELSE Ok(trim(stdout))

SshPrefix == <<"g", "i", "t", "@", "g", "i", "t", "h", "u", "b", ".", "c", "o", "m", ":">>

HttpsPrefix == <<"h", "t", "t", "p", "s", ":", "/", "/", "g", "i", "t", "h", "u", "b", ".", "c", "o", "m", "/">>

GitSuffix == <<".", "g", "i", "t">>

\* the mutant of parse_with_prefix: the suffix is stripped when there is one
parse_with_prefix_lenient(url, prefix) ==
    IF ~starts_with(url, prefix) THEN [found |-> FALSE, left |-> <<>>, right |-> <<>>]
    ELSE LET rest == Drop(url, Len(prefix))
         IN IF ~ends_with(rest, GitSuffix) THEN split_once(rest, <<"/">>)
            ELSE split_once(Take(rest, Len(rest) - Len(GitSuffix)), <<"/">>)

\* strip_prefix, strip_suffix and split_once('/') for one of the two prefixes
parse_with_prefix(url, prefix) ==
    IF ~starts_with(url, prefix) THEN [found |-> FALSE, left |-> <<>>, right |-> <<>>]
    ELSE LET rest == Drop(url, Len(prefix))
         IN IF ~ends_with(rest, GitSuffix) THEN [found |-> FALSE, left |-> <<>>, right |-> <<>>]
            ELSE split_once(Take(rest, Len(rest) - Len(GitSuffix)), <<"/">>)

\* the mutant of parse_github_owner_and_repo: only the HTTPS form is tried
parse_github_https_only(url) ==
    LET https == parse_with_prefix(url, HttpsPrefix)
    IN IF https.found THEN Ok(<<https.left, https.right>>)
       ELSE Err("Formato de URL do GitHub nao reconhecido")

parse_github_owner_and_repo(url) ==
    LET ssh   == parse_with_prefix(url, SshPrefix)
        https == parse_with_prefix(url, HttpsPrefix)
    IN IF ssh.found THEN Ok(<<ssh.left, ssh.right>>)
       ELSE IF https.found THEN Ok(<<https.left, https.right>>)
       ELSE Err("Formato de URL do GitHub nao reconhecido")

\* ------------------------------------------------------------------------
\* src/api_client/github.rs, src/config.rs
\* ------------------------------------------------------------------------

\* what config::load() gives: it fails, or the record with or without a token
ConfigStates == {"load_err", "no_token", "token"}

\* how the POST ends: not sent through, 2xx, an error status with a JSON
\* message, an error status with another body
HttpOutcomes == {"send_fail", "2xx", "api_error", "api_unparseable"}

\* the mutant of create_release_sends: the request is built and sent first
create_release_sends_always(cfg) == TRUE

\* whether create_release reaches .send()
create_release_sends(cfg) == cfg = "token"

create_release(cfg, http) ==
    IF cfg = "load_err" THEN Err("Falha ao ler o arquivo de configuracao")
    ELSE IF cfg = "no_token" THEN Err("Token da API do GitHub nao encontrado")
    ELSE IF http = "send_fail" THEN Err("Falha ao enviar a requisicao para a API do GitHub")
    ELSE IF http = "2xx" THEN Ok(TRUE)
    ELSE Err("Falha ao criar a release no GitHub")

\* ------------------------------------------------------------------------
\* The inputs: what the user types and what the external tools print
\* ------------------------------------------------------------------------

\* the texts a prompt can return
PromptTexts == SeqsUpTo({" ", "m"}, MaxLen)

\* Result<Option<String>> of a prompt: the terminal failed, the user
\* cancelled, or the user entered a text
PromptIoErr == [tag |-> "Err", val |-> <<>>]

PromptResults == {PromptIoErr, None} \cup {Some(t) : t \in PromptTexts}

StatusHeader == <<"#", "#", " ", "m", "a", "i", "n">>

\* file lines of a status report: staged, unstaged only, untracked
StatusLines == {<<"M", " ", " ", "a">>, <<" ", "M", " ", "a">>, <<"?", "?", " ", "a">>}

\* the texts `git status --porcelain=v1 --branch` can print
StatusTexts ==
    {<<>>} \cup {JoinLines(<<StatusHeader>> \o fl) : fl \in SeqsUpTo(StatusLines, MaxFiles)}

\* what `git push` writes on a stream
PushTexts == {<<>>, <<"\n">>, <<"o", "k", "\n">>}

AcmeWidget == <<"a", "c", "m", "e", "/", "w", "i", "d", "g", "e", "t">>

GitlabPrefix == <<"h", "t", "t", "p", "s", ":", "/", "/", "g", "i", "t", "l", "a", "b", ".", "c", "o", "m", "/">>

\* the texts `git config --get remote.origin.url` can print
OriginTexts ==
    { SshPrefix \o AcmeWidget \o GitSuffix \o <<"\n">>,
      HttpsPrefix \o AcmeWidget \o GitSuffix \o <<"\n">>,
      GitlabPrefix \o AcmeWidget \o GitSuffix \o <<"\n">>,
      HttpsPrefix \o AcmeWidget \o <<"\n">> }

\* ------------------------------------------------------------------------
\* State
\* ------------------------------------------------------------------------

VARIABLES
    pc,             \* where the program is
    action,         \* the handler last dispatched by handle_menu_action
    calls,          \* the external operations invoked by the running handler
    effects,        \* the side effects the running handler has completed
    out,            \* the lines printed since the screen was cleared
    sndRet,         \* what run_snd_flow returned
    status,         \* run_snd_flow: status
    commit_message, \* run_snd_flow: commit_message
    owner_repo,     \* handle_rls_action: (owner, repo)
    tag_name,       \* handle_rls_action: tag_name
    release_notes,  \* handle_rls_action: release_notes
    session,        \* what show_main_menu returned
    requests,       \* the HTTP requests the running handler has sent
    input,          \* the argument of the function under study
    result,         \* what the function under study returned
    child           \* clone_repository: the `git clone` process

vars == <<pc, action, calls, effects, out, sndRet, status, commit_message,
          owner_repo, tag_name, release_notes, session, requests, input, result,
          child>>

locals == <<sndRet, status, commit_message, owner_repo, tag_name, release_notes>>

NoRepo == <<>>

\* one external operation: who invoked it, what, the text it was given or
\* returned, and how it ended
Call(by, op, res, text) == [by |-> by, op |-> op, res |-> res, text |-> text]

\* how a prompt ended, for the log
PromptRes(p) == IF p.tag = "Err" THEN "io_err" ELSE IF p.tag = "None" THEN "none" ELSE "some"

\* the interactive session does not use the function under study
NoInput == [fn |-> "none"]

\* no process has been spawned
NoChild == [state |-> "none", script |-> <<>>, pipe |-> <<>>, emitted |-> <<>>]

Init ==
    /\ pc = "menu"
    /\ action = "none"
    /\ calls = <<>>
    /\ effects = {}
    /\ out = <<>>
    /\ sndRet = NoResult
    /\ status = EmptyStatus
    /\ commit_message = <<>>
    /\ owner_repo = NoRepo
    /\ tag_name = <<>>
    /\ release_notes = <<>>
    /\ session = NoResult
    /\ requests = <<>>
    /\ input = NoInput
    /\ result = NoResult
    /\ child = NoChild

\* ------------------------------------------------------------------------
\* show_main_menu and handle_menu_action
\* ------------------------------------------------------------------------

\* the handler of a menu index
Handler(index) ==
    CASE index = 1 -> "snd"
      [] index = 2 -> "rls"
      [] index = 4 -> "status"
      [] index = 5 -> "create_branch"
      [] index = 6 -> "switch_branch"
      [] index = 7 -> "clone"
      [] index = 9 -> "exit"
      [] OTHER     -> "unimplemented"

\* the first position of a handler
Entry(h) ==
    CASE h = "snd" -> "snd_add"
      [] h = "rls" -> "snd_add"
      [] h = "exit" -> "terminated"
      [] h = "unimplemented" -> "press_enter"
      [] OTHER -> h

\* clear_screen or the Select prompt fails: show_main_menu returns the error
MenuIoError ==
    /\ pc = "menu"
    /\ pc' = "terminated"
    /\ session' = Err("terminal")
    /\ UNCHANGED <<action, calls, effects, out, locals>>
    /\ UNCHANGED <<requests, input, result, child>>

\* the Select prompt is cancelled: the loop breaks
MenuCancel ==
    /\ pc = "menu"
    /\ pc' = "terminated"
    /\ session' = Ok(TRUE)
    /\ out' = <<"Operacao cancelada. Saindo do gitph.">>
    /\ UNCHANGED <<action, calls, effects, locals>>
    /\ UNCHANGED <<requests, input, result, child>>

\* an entry is selected: the screen is cleared and the handler is entered
MenuSelect ==
    /\ pc = "menu"
    /\ \E index \in 0..9 :
        /\ action' = Handler(index)
        /\ pc' = Entry(Handler(index))
        /\ session' = IF Handler(index) = "exit" THEN Ok(TRUE) ELSE session
        /\ out' = IF Handler(index) = "exit" THEN <<"Obrigado por usar o gitph.">>
                  ELSE IF Handler(index) = "unimplemented"
                  THEN <<"Funcionalidade ainda nao implementada.">>
                  ELSE <<>>
    /\ UNCHANGED <<calls, effects, locals>>
    /\ UNCHANGED <<requests, input, result, child>>

\* handle_menu_action waits for Enter and returns Ok(true); the loop clears
\* the screen and the handler's locals are gone
PressEnter ==
    /\ pc = "press_enter"
    /\ pc' = "menu"
    /\ calls' = <<>>
    /\ effects' = {}
    /\ out' = <<>>
    /\ sndRet' = NoResult
    /\ status' = EmptyStatus
    /\ commit_message' = <<>>
    /\ owner_repo' = NoRepo
    /\ tag_name' = <<>>
    /\ release_notes' = <<>>
    /\ requests' = <<>>
    /\ UNCHANGED <<action, session>>
    /\ UNCHANGED <<input, result, child>>

\* ------------------------------------------------------------------------
\* run_snd_flow (src/ui/menus.rs)
\* ------------------------------------------------------------------------

\* the mutant of snd_has_staged: the check of the staged files is skipped
snd_has_staged_always(st) == TRUE

\* status.files.iter().any(|f| f.staged_status.is_some())
snd_has_staged(st) == \E i \in 1..Len(st.files) : st.files[i].staged_status # Absent

\* the mutant of prompt_accepts: the guard on the entered text is missing
prompt_accepts_any(p) == p.tag = "Some"

\* Some(text) if !text.trim().is_empty()
prompt_accepts(p) == p.tag = "Some" /\ ~IsBlank(p.val)

\* the mutant of snd_after_add_all: the error of add_all is dropped
snd_after_add_all_ignore(r) == "snd_status"

\* commit::add_all().map_err(..)?
snd_after_add_all(r) == IF r.kind = "Err" THEN "snd_ret" ELSE "snd_status"

\* the mutant of snd_after_commit: the error of commit is dropped
snd_after_commit_ignore(r) == "snd_push"

\* commit::commit(&commit_message).map_err(..)?
snd_after_commit(r) == IF r.kind = "Err" THEN "snd_ret" ELSE "snd_push"

\* commit::add_all()
SndAddAll ==
    /\ pc = "snd_add"
    /\ \E outcome \in CmdOutcomes :
        LET r == add_all(outcome)
        IN /\ calls' = Append(calls, Call("run_snd_flow", "add_all", outcome, <<>>))
           /\ effects' = IF r.kind = "Ok" THEN effects \cup {"staged"} ELSE effects
           /\ out' = Append(out, IF r.kind = "Err" THEN "Erro ao adicionar arquivos:"
                                 ELSE "Arquivos adicionados ao stage.")
           /\ pc' = snd_after_add_all(r)
           /\ sndRet' = IF snd_after_add_all(r) = "snd_ret" THEN r ELSE sndRet
    /\ UNCHANGED <<action, status, commit_message, owner_repo, tag_name, release_notes, session>>
    /\ UNCHANGED <<requests, input, result, child>>

\* status::get_status()? and the check of the staged files
SndGetStatus ==
    /\ pc = "snd_status"
    /\ \E outcome \in CmdOutcomes, stdout \in StatusTexts :
        LET r == get_status(outcome, stdout)
        IN /\ outcome # ExitOk => stdout = <<>>
           /\ calls' = Append(calls, Call("run_snd_flow", "get_status", outcome, <<>>))
           /\ IF r.kind = "Panic"
              THEN /\ pc' = "panicked"
                   /\ UNCHANGED <<status, out, sndRet>>
              ELSE IF r.kind = "Err"
              THEN /\ sndRet' = r
                   /\ pc' = "snd_ret"
                   /\ UNCHANGED <<status, out>>
              ELSE /\ status' = r.v
                   /\ IF ~snd_has_staged(r.v)
                      THEN /\ out' = Append(out, "Nenhuma alteracao no stage para commitar.")
                           /\ sndRet' = Ok(TRUE)
                           /\ pc' = "snd_ret"
                      ELSE /\ pc' = "snd_prompt"
                           /\ UNCHANGED <<out, sndRet>>
    /\ UNCHANGED <<action, effects, commit_message, owner_repo, tag_name, release_notes, session>>
    /\ UNCHANGED <<requests, input, result, child>>

\* prompts::get_commit_message()? and the check of the message
SndPrompt ==
    /\ pc = "snd_prompt"
    /\ \E p \in PromptResults :
        /\ calls' = Append(calls, Call("run_snd_flow", "get_commit_message", PromptRes(p), p.val))
        /\ IF p.tag = "Err"
           THEN /\ sndRet' = Err("terminal")
                /\ pc' = "snd_ret"
                /\ UNCHANGED <<out, commit_message>>
           ELSE IF prompt_accepts(p)
           THEN /\ commit_message' = p.val
                /\ pc' = "snd_commit"
                /\ UNCHANGED <<out, sndRet>>
           ELSE /\ out' = Append(out, "Commit cancelado.")
                /\ sndRet' = Ok(FALSE)
                /\ pc' = "snd_ret"
                /\ UNCHANGED commit_message
    /\ UNCHANGED <<action, effects, status, owner_repo, tag_name, release_notes, session>>
    /\ UNCHANGED <<requests, input, result, child>>

\* commit::commit(&commit_message)
SndCommit ==
    /\ pc = "snd_commit"
    /\ \E outcome \in CmdOutcomes :
        LET r == commit(commit_message, outcome)
        IN /\ commit_spawns(commit_message) \/ outcome = ExitOk
           /\ calls' = IF commit_spawns(commit_message)
                       THEN Append(calls, Call("run_snd_flow", "commit", outcome, commit_message))
                       ELSE calls
           /\ effects' = IF r.kind = "Ok" THEN effects \cup {"committed"} ELSE effects
           /\ out' = Append(out, IF r.kind = "Err" THEN "Erro ao criar o commit:"
                                 ELSE "Commit criado com sucesso.")
           /\ pc' = snd_after_commit(r)
           /\ sndRet' = IF snd_after_commit(r) = "snd_ret" THEN r ELSE sndRet
    /\ UNCHANGED <<action, status, commit_message, owner_repo, tag_name, release_notes, session>>
    /\ UNCHANGED <<requests, input, result, child>>

\* push::push() and the return of run_snd_flow
SndPush ==
    /\ pc = "snd_push"
    /\ \E outcome \in CmdOutcomes, stdout \in PushTexts, stderr \in PushTexts :
        LET r == push(outcome, stdout, stderr)
        IN /\ outcome = SpawnFail => stdout = <<>> /\ stderr = <<>>
           /\ calls' = Append(calls, Call("run_snd_flow", "push", outcome, <<>>))
           /\ effects' = IF r.kind = "Ok" THEN effects \cup {"pushed"} ELSE effects
           /\ out' = IF r.kind = "Err" THEN Append(out, "Erro ao realizar o push:")
                     ELSE IF r.v # <<>>
                          THEN out \o <<"Push realizado com sucesso.", "msg">>
                          ELSE Append(out, "Push realizado com sucesso.")
           /\ sndRet' = IF r.kind = "Err" THEN r ELSE Ok(TRUE)
           /\ pc' = "snd_ret"
    /\ UNCHANGED <<action, status, commit_message, owner_repo, tag_name, release_notes, session>>
    /\ UNCHANGED <<requests, input, result, child>>

\* ------------------------------------------------------------------------
\* handle_snd_action
\* ------------------------------------------------------------------------

\* let _ = run_snd_flow()?; Ok(())  -- and the `?` of handle_menu_action and
\* of show_main_menu after it
SndActionReturn ==
    /\ pc = "snd_ret"
    /\ action = "snd"
    /\ IF sndRet.kind = "Err"
       THEN /\ pc' = "terminated"
            /\ session' = sndRet
       ELSE /\ pc' = "press_enter"
            /\ UNCHANGED session
    /\ UNCHANGED <<action, calls, effects, out, locals>>
    /\ UNCHANGED <<requests, input, result, child>>

\* ------------------------------------------------------------------------
\* handle_rls_action
\* ------------------------------------------------------------------------

\* the mutant of rls_sync_gate: the result of run_snd_flow is not looked at
rls_sync_gate_open(ret) == TRUE

\* if !run_snd_flow()? { return Ok(()) }: whether the release goes on
rls_sync_gate(ret) == ret.v

\* the mutant of rls_after_create_tag: the error of the tag creation is only
\* printed
rls_after_create_tag_ignore(r) == "rls_push_tag"

\* if let Err(e) = tag::create_annotated_tag(..) { ..; return Ok(()) }
rls_after_create_tag(r) == IF r.kind = "Err" THEN "press_enter" ELSE "rls_push_tag"

\* if !run_snd_flow()? { .. }
RlsCheckSync ==
    /\ pc = "snd_ret"
    /\ action = "rls"
    /\ IF sndRet.kind = "Err"
       THEN /\ pc' = "terminated"
            /\ session' = sndRet
            /\ UNCHANGED out
       ELSE IF ~rls_sync_gate(sndRet)
       THEN /\ pc' = "press_enter"
            /\ out' = Append(out, "Fluxo de trabalho de release abortado")
            /\ UNCHANGED session
       ELSE /\ pc' = "rls_origin"
            /\ out' = Append(out, "Sincronizacao inicial concluida.")
            /\ UNCHANGED session
    /\ UNCHANGED <<action, calls, effects, locals>>
    /\ UNCHANGED <<requests, input, result, child>>

\* remote::get_origin_url().and_then(|url| remote::parse_github_owner_and_repo(&url))
RlsResolve ==
    /\ pc = "rls_origin"
    /\ \E outcome \in CmdOutcomes, stdout \in OriginTexts :
        LET u == get_origin_url(outcome, stdout)
            r == IF u.kind = "Err" THEN u ELSE parse_github_owner_and_repo(u.v)
        IN /\ calls' = Append(calls, Call("handle_rls_action", "get_origin_url", outcome,
                                          IF outcome = ExitOk THEN stdout ELSE <<>>))
           /\ IF r.kind = "Err"
              THEN /\ out' = Append(out, "Erro:")
                   /\ pc' = "press_enter"
                   /\ UNCHANGED owner_repo
              ELSE /\ owner_repo' = r.v
                   /\ out' = Append(out, "Repositorio detectado")
                   /\ pc' = "rls_tag_name"
    /\ UNCHANGED <<action, effects, sndRet, status, commit_message, tag_name, release_notes, session>>
    /\ UNCHANGED <<requests, input, result, child>>

\* let tag_name = match prompts::get_commit_message()? { .. }
RlsTagName ==
    /\ pc = "rls_tag_name"
    /\ \E p \in PromptResults :
        /\ calls' = Append(calls, Call("handle_rls_action", "get_commit_message", PromptRes(p), p.val))
        /\ IF p.tag = "Err"
           THEN /\ pc' = "terminated"
                /\ session' = Err("terminal")
                /\ UNCHANGED <<out, tag_name>>
           ELSE IF prompt_accepts(p)
           THEN /\ tag_name' = p.val
                /\ pc' = "rls_notes"
                /\ UNCHANGED <<out, session>>
           ELSE /\ out' = Append(out, "Nome da tag invalido ou operacao cancelada.")
                /\ pc' = "press_enter"
                /\ UNCHANGED <<tag_name, session>>
    /\ UNCHANGED <<action, effects, sndRet, status, commit_message, owner_repo, release_notes>>
    /\ UNCHANGED <<requests, input, result, child>>

\* let release_notes = match prompts::get_release_notes()? { .. }
RlsNotes ==
    /\ pc = "rls_notes"
    /\ \E p \in PromptResults :
        /\ calls' = Append(calls, Call("handle_rls_action", "get_release_notes", PromptRes(p), p.val))
        /\ IF p.tag = "Err"
           THEN /\ pc' = "terminated"
                /\ session' = Err("terminal")
                /\ UNCHANGED <<out, release_notes>>
           ELSE IF prompt_accepts(p)
           THEN /\ release_notes' = p.val
                /\ pc' = "rls_create_tag"
                /\ UNCHANGED <<out, session>>
           ELSE /\ out' = Append(out, "Notas da release vazias ou operacao cancelada.")
                /\ pc' = "press_enter"
                /\ UNCHANGED <<release_notes, session>>
    /\ UNCHANGED <<action, effects, sndRet, status, commit_message, owner_repo, tag_name>>
    /\ UNCHANGED <<requests, input, result, child>>

\* tag::create_annotated_tag(&tag_name, &release_title), release_title being
\* tag_name.clone()
RlsCreateTag ==
    /\ pc = "rls_create_tag"
    /\ \E outcome \in CmdOutcomes :
        LET r == create_annotated_tag(tag_name, tag_name, outcome)
        IN /\ create_annotated_tag_spawns(tag_name, tag_name) \/ outcome = ExitOk
           /\ calls' = IF create_annotated_tag_spawns(tag_name, tag_name)
                       THEN Append(calls, Call("handle_rls_action", "create_annotated_tag",
                                               outcome, tag_name))
                       ELSE calls
           /\ effects' = IF r.kind = "Ok" THEN effects \cup {"tag_created"} ELSE effects
           /\ out' = IF r.kind = "Err" THEN Append(out, "Erro ao criar a tag local:") ELSE out
           /\ pc' = rls_after_create_tag(r)
    /\ UNCHANGED <<action, locals, session>>
    /\ UNCHANGED <<requests, input, result, child>>

\* the mutant of RlsPushTag: a failed push of the tag deletes the local tag
RlsPushTagRollback ==
    /\ pc = "rls_push_tag"
    /\ \E outcome \in CmdOutcomes :
        LET r == push_tag(tag_name, outcome)
        IN /\ calls' = IF r.kind = "Ok"
                       THEN Append(calls, Call("handle_rls_action", "push_tag", outcome, tag_name))
                       ELSE Append(Append(calls,
                                Call("handle_rls_action", "push_tag", outcome, tag_name)),
                                Call("handle_rls_action", "delete_tag", ExitOk, tag_name))
           /\ effects' = IF r.kind = "Ok" THEN effects \cup {"tag_pushed"}
                         ELSE effects \ {"tag_created"}
           /\ out' = Append(out, IF r.kind = "Err" THEN "Erro ao enviar a tag para o remoto:"
                                 ELSE "Tag criada e enviada com sucesso.")
           /\ pc' = IF r.kind = "Err" THEN "press_enter" ELSE "rls_release"
    /\ UNCHANGED <<action, locals, session>>
    /\ UNCHANGED <<requests, input, result, child>>

\* tag::push_tag(&tag_name)
RlsPushTag ==
    /\ pc = "rls_push_tag"
    /\ \E outcome \in CmdOutcomes :
        LET r == push_tag(tag_name, outcome)
        IN /\ push_tag_spawns(tag_name) \/ outcome = ExitOk
           /\ calls' = IF push_tag_spawns(tag_name)
                       THEN Append(calls, Call("handle_rls_action", "push_tag", outcome, tag_name))
                       ELSE calls
           /\ effects' = IF r.kind = "Ok" THEN effects \cup {"tag_pushed"} ELSE effects
           /\ out' = Append(out, IF r.kind = "Err" THEN "Erro ao enviar a tag para o remoto:"
                                 ELSE "Tag criada e enviada com sucesso.")
           /\ pc' = IF r.kind = "Err" THEN "press_enter" ELSE "rls_release"
    /\ UNCHANGED <<action, locals, session>>
    /\ UNCHANGED <<requests, input, result, child>>

\* how create_release ended, for the log
ReleaseRes(cfg, http) == IF create_release_sends(cfg) THEN http ELSE cfg

\* api_client::github::create_release(&owner, &repo, &tag_name, &release_title, &release_notes)
RlsCreateRelease ==
    /\ pc = "rls_release"
    /\ \E cfg \in ConfigStates, http \in HttpOutcomes :
        LET r == create_release(cfg, http)
        IN /\ create_release_sends(cfg) \/ http = "2xx"
           /\ calls' = Append(calls, Call("handle_rls_action", "create_release",
                                          ReleaseRes(cfg, http), tag_name))
           /\ effects' = IF r.kind = "Ok" THEN effects \cup {"published"} ELSE effects
           /\ requests' = IF create_release_sends(cfg)
                          THEN Append(requests, tag_name) ELSE requests
           /\ out' = IF r.kind = "Err"
                     THEN out \o <<"Erro ao criar a release no GitHub:", r.msg>>
                     ELSE Append(out, "Release criada com sucesso no GitHub!")
           /\ pc' = "press_enter"
    /\ UNCHANGED <<action, locals, session>>
    /\ UNCHANGED <<input, result, child>>

\* ------------------------------------------------------------------------
\* src/git_wrapper/branch.rs, clone.rs and their menu handlers
\* ------------------------------------------------------------------------

\* the loop body of list_branches: the records of one line of `git branch`
branch_of_line(line) ==
    LET trimmed_line == trim(line)
        is_current   == starts_with(trimmed_line, <<"*">>)
    IN IF trimmed_line = <<>> THEN <<>>
       ELSE << [name |-> IF is_current /\ starts_with(trimmed_line, <<"*", " ">>)
                         THEN Drop(trimmed_line, 2) ELSE trimmed_line,
                is_current |-> is_current] >>

RECURSIVE branches_of_lines(_)
branches_of_lines(ls) ==
    IF ls = <<>> THEN <<>> ELSE branch_of_line(Head(ls)) \o branches_of_lines(Tail(ls))

list_branches(outcome, stdout) ==
    IF outcome = SpawnFail THEN Err("Falha ao executar o comando 'git branch'")
    ELSE IF outcome = NonZero THEN Err("Falha ao listar as branches")
    ELSE Ok(branches_of_lines(lines(stdout)))

\* whether create_branch runs `git branch <name>`
create_branch_spawns(name) == ~IsBlank(name)

\* the arguments of the error of a `git branch` that exited non-zero: the
\* name given to git and what git wrote on its stderr
create_branch_detail(name, outcome, stderr) ==
    IF ~IsBlank(name) /\ outcome = NonZero THEN <<trim(name), trim(stderr)>> ELSE <<>>

\* the mutant of create_branch: the name is handed to git as it is
create_branch_unchecked(name, outcome) ==
    IF outcome = SpawnFail THEN Err("Falha ao executar o comando 'git branch' para criar a branch")
    ELSE IF outcome = NonZero THEN Err("Falha ao criar a branch")
    ELSE Ok(TRUE)

create_branch(name, outcome) ==
    IF IsBlank(name) THEN Err("O nome da branch nao pode ser vazio")
    ELSE IF outcome = SpawnFail THEN Err("Falha ao executar o comando 'git branch' para criar a branch")
    ELSE IF outcome = NonZero THEN Err("Falha ao criar a branch")
    ELSE Ok(TRUE)

\* whether switch_branch runs `git checkout <name>`
switch_branch_spawns(name) == ~IsBlank(name)

\* the arguments of the error of a `git checkout` that exited non-zero
switch_branch_detail(name, outcome, stderr) ==
    IF ~IsBlank(name) /\ outcome = NonZero THEN <<trim(name), trim(stderr)>> ELSE <<>>

switch_branch(name, outcome) ==
    IF IsBlank(name) THEN Err("O nome da branch nao pode ser vazio")
    ELSE IF outcome = SpawnFail THEN Err("Falha ao executar o comando 'git checkout'")
    ELSE IF outcome = NonZero THEN Err("Falha ao mudar para a branch")
    ELSE Ok(TRUE)

\* how `git clone` ends: not spawned, its stderr could not be read, the wait
\* failed, it exited non-zero, it exited zero
CloneOutcomes == {SpawnFail, "read_err", "wait_err", NonZero, ExitOk}

clone_repository(url, outcome) ==
    IF IsBlank(url) THEN Err("A URL do repositorio nao pode ser vazia")
    ELSE IF outcome = SpawnFail THEN Err("Falha ao iniciar o processo 'git clone'")
    ELSE IF outcome = "read_err" THEN Err("Falha ao ler a saida do git clone")
    ELSE IF outcome = "wait_err" THEN Err("Falha ao aguardar o termino do processo 'git clone'")
    ELSE IF outcome = NonZero THEN Err("O comando 'git clone' falhou")
    ELSE Ok(TRUE)

\* the texts `git branch` can print
BranchTexts == {<<>>, JoinLines(<<<<"*", " ", "m", "a", "i", "n">>, <<" ", " ", "d", "e", "v">>>>)}

\* handle_status_action
HandleStatus ==
    /\ pc = "status"
    /\ \E outcome \in CmdOutcomes, stdout \in StatusTexts :
        LET r == get_status(outcome, stdout)
        IN /\ outcome # ExitOk => stdout = <<>>
           /\ calls' = Append(calls, Call("handle_status_action", "get_status", outcome, <<>>))
           /\ out' = IF r.kind = "Panic" THEN out
                     ELSE Append(out, IF r.kind = "Err" THEN "Erro ao obter status:"
                                      ELSE IF r.v.files = <<>>
                                           THEN "Repositorio limpo. Nada a commitar."
                                           ELSE "status")
           /\ pc' = IF r.kind = "Panic" THEN "panicked" ELSE "press_enter"
    /\ UNCHANGED <<action, effects, locals, session>>
    /\ UNCHANGED <<requests, input, result, child>>

\* handle_create_branch_action
HandleCreateBranch ==
    /\ pc = "create_branch"
    /\ \E p \in PromptResults, outcome \in CmdOutcomes :
        IF p.tag = "Err"
        THEN /\ outcome = ExitOk
             /\ pc' = "terminated"
             /\ session' = Err("terminal")
             /\ calls' = Append(calls, Call("handle_create_branch_action", "get_commit_message",
                                            PromptRes(p), p.val))
             /\ UNCHANGED out
        ELSE IF ~prompt_accepts(p)
        THEN /\ outcome = ExitOk
             /\ pc' = "press_enter"
             /\ out' = Append(out, "Nome de branch invalido ou operacao cancelada.")
             /\ calls' = Append(calls, Call("handle_create_branch_action", "get_commit_message",
                                            PromptRes(p), p.val))
             /\ UNCHANGED session
        ELSE /\ pc' = "press_enter"
             /\ calls' = calls \o
                    << Call("handle_create_branch_action", "get_commit_message", PromptRes(p), p.val),
                       Call("handle_create_branch_action", "create_branch", outcome, trim(p.val)) >>
             /\ out' = Append(out, IF create_branch(p.val, outcome).kind = "Err"
                                   THEN "Erro ao criar a branch:" ELSE "Branch criada com sucesso.")
             /\ UNCHANGED session
    /\ UNCHANGED <<action, effects, locals>>
    /\ UNCHANGED <<requests, input, result, child>>

\* handle_switch_branch_action; sel is the answer to the Select prompt: the
\* terminal failed (-2), the user cancelled (-1), or an index
HandleSwitchBranch ==
    /\ pc = "switch_branch"
    /\ \E listed \in CmdOutcomes, stdout \in BranchTexts, sel \in -2..1, outcome \in CmdOutcomes :
        LET b  == list_branches(listed, stdout)
            c1 == Call("handle_switch_branch_action", "list_branches", listed, <<>>)
        IN /\ listed # ExitOk => stdout = <<>>
           /\ IF b.kind = "Err" \/ b.v = <<>>
              THEN /\ sel = -1 /\ outcome = ExitOk
                   /\ calls' = Append(calls, c1)
                   /\ out' = Append(out, IF b.kind = "Err" THEN "Erro ao listar as branches:"
                                         ELSE "Nenhuma branch encontrada neste repositorio.")
                   /\ pc' = "press_enter"
                   /\ UNCHANGED session
              ELSE /\ sel < Len(b.v)
                   /\ IF sel = -2
                      THEN /\ outcome = ExitOk
                           /\ calls' = Append(calls, c1)
                           /\ pc' = "terminated"
                           /\ session' = Err("terminal")
                           /\ UNCHANGED out
                      ELSE IF sel = -1
                      THEN /\ outcome = ExitOk
                           /\ calls' = Append(calls, c1)
                           /\ out' = Append(out, "Operacao cancelada.")
                           /\ pc' = "press_enter"
                           /\ UNCHANGED session
                      ELSE /\ calls' = calls \o
                                << c1, Call("handle_switch_branch_action", "switch_branch",
                                            outcome, trim(b.v[sel + 1].name)) >>
                           /\ out' = Append(out,
                                  IF switch_branch(b.v[sel + 1].name, outcome).kind = "Err"
                                  THEN "Erro ao mudar de branch:"
                                  ELSE "Mudou para a branch com sucesso.")
                           /\ pc' = "press_enter"
                           /\ UNCHANGED session
    /\ UNCHANGED <<action, effects, locals>>
    /\ UNCHANGED <<requests, input, result, child>>

\* handle_clone_action
HandleClone ==
    /\ pc = "clone"
    /\ \E p \in PromptResults, outcome \in CloneOutcomes :
        IF p.tag = "Err"
        THEN /\ outcome = ExitOk
             /\ pc' = "terminated"
             /\ session' = Err("terminal")
             /\ calls' = Append(calls, Call("handle_clone_action", "get_commit_message",
                                            PromptRes(p), p.val))
             /\ UNCHANGED out
        ELSE IF ~prompt_accepts(p)
        THEN /\ outcome = ExitOk
             /\ pc' = "press_enter"
             /\ out' = Append(out, "URL invalida ou operacao cancelada.")
             /\ calls' = Append(calls, Call("handle_clone_action", "get_commit_message",
                                            PromptRes(p), p.val))
             /\ UNCHANGED session
        ELSE /\ pc' = "press_enter"
             /\ calls' = calls \o
                    << Call("handle_clone_action", "get_commit_message", PromptRes(p), p.val),
                       Call("handle_clone_action", "clone_repository", outcome, trim(p.val)) >>
             /\ out' = Append(out, IF clone_repository(p.val, outcome).kind = "Err"
                                   THEN "Erro:" ELSE "Repositorio clonado com sucesso.")
             /\ UNCHANGED session
    /\ UNCHANGED <<action, effects, locals>>
    /\ UNCHANGED <<requests, input, result, child>>

\* ------------------------------------------------------------------------
\* The program
\* ------------------------------------------------------------------------

Next ==
    \/ MenuIoError
    \/ MenuCancel
    \/ MenuSelect
    \/ PressEnter
    \/ SndAddAll
    \/ SndGetStatus
    \/ SndPrompt
    \/ SndCommit
    \/ SndPush
    \/ SndActionReturn
    \/ RlsCheckSync
    \/ RlsResolve
    \/ RlsTagName
    \/ RlsNotes
    \/ RlsCreateTag
    \/ RlsPushTag
    \/ RlsCreateRelease
    \/ HandleStatus
    \/ HandleCreateBranch
    \/ HandleSwitchBranch
    \/ HandleClone

Spec == Init /\ [][Next]_vars

\* ------------------------------------------------------------------------
\* The functions of the wrappers, each applied to an argument of its own
\* ------------------------------------------------------------------------

\* most file lines of a parsed text
MaxParseLines == 2

\* longest owner/repo part of a URL
MaxBody == 3

\* the character of a ChangeType in the porcelain format
status_char(kind) ==
    CASE kind = "Added" -> "A"
      [] kind = "Modified" -> "M"
      [] kind = "Deleted" -> "D"
      [] kind = "Renamed" -> "R"
      [] kind = "Copied" -> "C"
      [] kind = "TypeChanged" -> "T"
      [] kind = "Unmerged" -> "U"
      [] kind = "Untracked" -> "?"
      [] OTHER -> " "

\* (staged, unstaged) kinds of a file
KindPairs ==
    { <<"Modified", Absent>>, <<Absent, "Modified">>, <<"Modified", "Modified">>,
      <<"Renamed", Absent>>, <<Absent, "Renamed">>, <<"Untracked", "Untracked">>,
      <<Absent, Absent>> }

\* paths: empty, plain, with a leading blank, a rename
Paths == { <<>>, <<"a">>, <<" ", "a">>, <<"a">> \o RenameSep \o <<"b">> }

Triples == { [path |-> p, staged |-> k[1], unstaged |-> k[2]] : p \in Paths, k \in KindPairs }

\* a triple as a line: the two codes, one space, the path
EncodeLine(tr) == <<status_char(tr.staged), status_char(tr.unstaged), " ">> \o tr.path

\* lines no triple encodes: unknown codes, no separating space, codes of
\* more than one byte, short lines
OddLines ==
    { <<"x", "y", " ", "a">>, <<"M", "M", "a", "b">>, <<EAcute, " ", "a">>,
      <<"M", EAcute, " ", "a">>, <<"M", " ", EAcute>>, <<EAcute, "a">>, <<>> }

\* "R  old.txt -> new.txt"
RenameExample ==
    <<"R", " ", " ", "o", "l", "d", ".", "t", "x", "t">> \o RenameSep \o
    <<"n", "e", "w", ".", "t", "x", "t">>

ParseLines == {EncodeLine(tr) : tr \in Triples} \cup OddLines \cup {RenameExample}

\* first lines: with the "## " prefix, without it, and one that looks like a
\* file line
ParseHeaders == {StatusHeader, <<"m", "a", "i", "n">>, <<"M", " ", " ", "a">>}

\* the text parsed: no line at all, or a first line and the file lines
ParseInputs ==
    {[fn |-> "parse", first |-> <<>>, rows |-> <<>>]} \cup
    {[fn |-> "parse", first |-> <<h>>, rows |-> r] :
        h \in ParseHeaders, r \in SeqsUpTo(ParseLines, MaxParseLines)}

StatusText(in) == JoinLines(in.first \o in.rows)

UrlPrefixes == {SshPrefix, HttpsPrefix, GitlabPrefix, <<>>}

UrlBodies == SeqsUpTo({"a", "/"}, MaxBody) \cup {AcmeWidget}

UrlSuffixes == {GitSuffix, <<>>}

ResolveInputs ==
    {[fn |-> "resolve", url |-> p \o b \o x] :
        p \in UrlPrefixes, b \in UrlBodies, x \in UrlSuffixes}

StreamTexts == PushTexts \cup {<<" ", "u", "p", " ", "\n">>}

PushInputs ==
    {[fn |-> "push", outcome |-> o, stdout |-> so, stderr |-> se] :
        o \in {NonZero, ExitOk}, so \in StreamTexts, se \in StreamTexts}
    \cup {[fn |-> "push", outcome |-> SpawnFail, stdout |-> <<>>, stderr |-> <<>>]}

\* a branch name, how git ends and what it writes on its stderr
BranchInputs(fn) ==
    {[fn |-> fn, name |-> n, outcome |-> o, stderr |-> se] :
        n \in {t \in PromptTexts : ~IsBlank(t)}, o \in {NonZero, ExitOk}, se \in StreamTexts}
    \cup {[fn |-> fn, name |-> n, outcome |-> SpawnFail, stderr |-> <<>>] :
            n \in {t \in PromptTexts : ~IsBlank(t)}}
    \cup {[fn |-> fn, name |-> n, outcome |-> ExitOk, stderr |-> <<>>] :
            n \in {t \in PromptTexts : IsBlank(t)}}

\* most lines `git clone` writes on its stderr
MaxCloneLines == 2

\* a line that is not valid UTF-8: BufRead::lines gives an Err for it
BadLine == "invalid-utf8"

\* what `git clone` writes on its stderr, line by line
CloneLines == {"Cloning into", "Receiving objects"}

\* the URL typed, whether git can be spawned, the lines it writes, its exit
\* status and whether wait() succeeds
CloneInputs ==
    {[fn |-> "clone", url |-> <<"u">>, spawn |-> ExitOk, script |-> sc, status |-> st, wait |-> w] :
        sc \in SeqsUpTo(CloneLines \cup {BadLine}, MaxCloneLines),
        st \in {NonZero, ExitOk}, w \in {"ok", "wait_err"}}
    \cup {[fn |-> "clone", url |-> u, spawn |-> sp, script |-> <<>>, status |-> ExitOk, wait |-> "ok"] :
            <<u, sp>> \in {<<<<" ">>, ExitOk>>, <<<<"u">>, SpawnFail>>}}

\* the characters decoded: the eight codes, blank, and others
DecodeInputs ==
    {[fn |-> "decode", c |-> c] :
        c \in {"A", "M", "D", "R", "C", "T", "U", "?", " ", "x", "!", "m", EAcute}}

InitFn ==
    /\ pc = "fn_call"
    /\ action = "none"
    /\ calls = <<>>
    /\ effects = {}
    /\ out = <<>>
    /\ sndRet = NoResult
    /\ status = EmptyStatus
    /\ commit_message = <<>>
    /\ owner_repo = NoRepo
    /\ tag_name = <<>>
    /\ release_notes = <<>>
    /\ session = NoResult
    /\ requests = <<>>
    /\ input \in ParseInputs \cup ResolveInputs \cup PushInputs
                \cup BranchInputs("create_branch") \cup BranchInputs("switch_branch")
                \cup CloneInputs \cup DecodeInputs
    /\ result = NoResult
    /\ child = NoChild

Returned(r) ==
    /\ result' = r
    /\ pc' = IF r.kind = "Panic" THEN "panicked" ELSE "fn_done"
    /\ UNCHANGED <<action, calls, effects, out, locals, session, requests, input, child>>

\* parse_porcelain_output(&output_str)
DoParse ==
    /\ pc = "fn_call"
    /\ input.fn = "parse"
    /\ Returned(parse_porcelain_output(StatusText(input)))

\* parse_github_owner_and_repo(&url)
DoResolve ==
    /\ pc = "fn_call"
    /\ input.fn = "resolve"
    /\ Returned(parse_github_owner_and_repo(input.url))

\* push::push()
DoPush ==
    /\ pc = "fn_call"
    /\ input.fn = "push"
    /\ Returned(push(input.outcome, input.stdout, input.stderr))

\* create_branch(&name): the result, the commands run, and the text of the
\* error
DoCreateBranch ==
    /\ pc = "fn_call"
    /\ input.fn = "create_branch"
    /\ LET r == create_branch(input.name, input.outcome)
       IN /\ result' = r
          /\ calls' = IF create_branch_spawns(input.name)
                       THEN Append(calls, Call("create_branch", "git branch", input.outcome,
                                               trim(input.name)))
                       ELSE calls
          /\ out' = IF r.kind = "Err"
                    THEN <<r.msg>> \o create_branch_detail(input.name, input.outcome, input.stderr)
                    ELSE out
    /\ pc' = "fn_done"
    /\ UNCHANGED <<action, effects, locals, session, requests, input, child>>

\* switch_branch(&name)
DoSwitchBranch ==
    /\ pc = "fn_call"
    /\ input.fn = "switch_branch"
    /\ LET r == switch_branch(input.name, input.outcome)
       IN /\ result' = r
          /\ calls' = IF switch_branch_spawns(input.name)
                       THEN Append(calls, Call("switch_branch", "git checkout", input.outcome,
                                               trim(input.name)))
                       ELSE calls
          /\ out' = IF r.kind = "Err"
                    THEN <<r.msg>> \o switch_branch_detail(input.name, input.outcome, input.stderr)
                    ELSE out
    /\ pc' = "fn_done"
    /\ UNCHANGED <<action, effects, locals, session, requests, input, child>>

\* clone_repository, up to the spawn: the URL is checked and announced, and
\* `git clone` is spawned with its stderr piped
CloneStart ==
    /\ pc = "fn_call"
    /\ input.fn = "clone"
    /\ IF IsBlank(input.url)
       THEN /\ result' = clone_repository(input.url, ExitOk)
            /\ pc' = "fn_done"
            /\ UNCHANGED <<out, calls, child>>
       ELSE /\ out' = Append(out, "Clonando de")
            /\ calls' = Append(calls, Call("clone_repository", "spawn", input.spawn, trim(input.url)))
            /\ IF input.spawn = SpawnFail
               THEN /\ result' = clone_repository(input.url, SpawnFail)
                    /\ pc' = "fn_done"
                    /\ UNCHANGED child
               ELSE /\ child' = [state |-> "running", script |-> input.script,
                                 pipe |-> <<>>, emitted |-> <<>>]
                    /\ pc' = "clone_read"
                    /\ UNCHANGED result
    /\ UNCHANGED <<action, effects, locals, session, requests, input>>

\* the process writes its next line on stderr
ChildEmit ==
    /\ child.state = "running"
    /\ child.script # <<>>
    /\ child' = [child EXCEPT !.script = Tail(@),
                              !.pipe = Append(@, Head(child.script)),
                              !.emitted = Append(@, Head(child.script))]
    /\ UNCHANGED <<pc, action, calls, effects, out, locals, session, requests, input, result>>

\* the process closes its stderr, having written all it had to
ChildClose ==
    /\ child.state = "running"
    /\ child.script = <<>>
    /\ child' = [child EXCEPT !.state = "closed"]
    /\ UNCHANGED <<pc, action, calls, effects, out, locals, session, requests, input, result>>

\* the process exits; it stays a zombie until it is waited for
ChildExit ==
    /\ child.state = "closed"
    /\ child' = [child EXCEPT !.state = "exited"]
    /\ UNCHANGED <<pc, action, calls, effects, out, locals, session, requests, input, result>>

\* one turn of `for line in reader.lines()`: the line is printed, or the
\* read error is returned
CloneReadLine ==
    /\ pc = "clone_read"
    /\ child.pipe # <<>>
    /\ child' = [child EXCEPT !.pipe = Tail(@)]
    /\ IF Head(child.pipe) = BadLine
       THEN /\ result' = clone_repository(input.url, "read_err")
            /\ pc' = "fn_done"
            /\ UNCHANGED out
       ELSE /\ out' = Append(out, Head(child.pipe))
            /\ UNCHANGED <<pc, result>>
    /\ UNCHANGED <<action, calls, effects, locals, session, requests, input>>

\* reader.lines() ends: the pipe is empty and its write end is closed
CloneReadEof ==
    /\ pc = "clone_read"
    /\ child.pipe = <<>>
    /\ child.state \in {"closed", "exited"}
    /\ pc' = "clone_wait"
    /\ calls' = Append(calls, Call("clone_repository", "wait", "begun", <<>>))
    /\ UNCHANGED <<action, effects, out, locals, session, requests, input, result, child>>

\* child.wait() returns, once the process has exited, and the status is
\* looked at
CloneWait ==
    /\ pc = "clone_wait"
    /\ child.state = "exited"
    /\ LET outcome == IF input.wait = "wait_err" THEN "wait_err" ELSE input.status
           r == clone_repository(input.url, outcome)
       IN /\ result' = r
          /\ calls' = Append(calls, Call("clone_repository", "wait", outcome, <<>>))
          /\ child' = IF input.wait = "wait_err" THEN child ELSE [child EXCEPT !.state = "reaped"]
          /\ out' = IF r.kind = "Ok" THEN Append(out, "Repositorio clonado com sucesso.") ELSE out
    /\ pc' = "fn_done"
    /\ UNCHANGED <<action, effects, locals, session, requests, input>>

\* parse_status_char(c)
DoDecode ==
    /\ pc = "fn_call"
    /\ input.fn = "decode"
    /\ Returned(Ok(parse_status_char(input.c)))

NextFn ==
    \/ DoParse
    \/ DoResolve
    \/ DoPush
    \/ DoCreateBranch
    \/ DoSwitchBranch
    \/ CloneStart
    \/ ChildEmit
    \/ ChildClose
    \/ ChildExit
    \/ CloneReadLine
    \/ CloneReadEof
    \/ CloneWait
    \/ DoDecode

SpecFn == InitFn /\ [][NextFn]_vars

\* ------------------------------------------------------------------------
\* Properties
\* ------------------------------------------------------------------------

Snd == "run_snd_flow"

Rls == "handle_rls_action"

Failures == {SpawnFail, NonZero}

CallsBy(by) == SelectSeq(calls, LAMBDA c : c.by = by)

Invoked(by, op) == \E i \in DOMAIN calls : calls[i].by = by /\ calls[i].op = op

Ended(by, op, results) ==
    \E i \in DOMAIN calls : calls[i].by = by /\ calls[i].op = op /\ calls[i].res \in results

Printed(text) == \E i \in DOMAIN out : out[i] = text

HasVisibleChar(t) == \E i \in DOMAIN t : t[i] \notin {" ", "\t", "\n", "\r"}

\* the prompt was cancelled, or the text entered has no visible character
Withheld(c) == c.res = "none" \/ (c.res = "some" /\ ~HasVisibleChar(c.text))

RlsPositions ==
    {"rls_origin", "rls_tag_name", "rls_notes", "rls_create_tag", "rls_push_tag", "rls_release"}

TagEffects == {"tag_created", "tag_pushed", "published"}

FlowEnded == pc \in {"press_enter", "terminated"}

\* stage-all succeeded and the status queried after it has no file with a
\* staged change
SyncSkipped ==
    /\ Ended(Snd, "add_all", {ExitOk})
    /\ Ended(Snd, "get_status", {ExitOk})
    /\ \A i \in DOMAIN status.files : status.files[i].staged_status = "None"

\* the release flow did nothing after the sync
NoReleaseStep ==
    /\ CallsBy(Rls) = <<>>
    /\ effects \cap TagEffects = {}
    /\ pc \notin RlsPositions

\* C1 as stated: in the Release flow, when the embedded Sync flow ends as
\* Skipped, the Release flow aborts: the remote URL is not queried, no
\* tag-name or notes prompt is shown, no tag is created, pushed or published.
C1_SkippedSyncAbortsRelease ==
    (action = "rls" /\ SyncSkipped) => NoReleaseStep

\* C1 amended: in the Release flow, whenever run_snd_flow has not returned
\* Ok(true) (the commit message was withheld, or a step of the sync failed)
\* the Release flow does nothing more: no URL query, no prompt, no tag, no
\* release; a Skipped sync returns Ok(true), and a Release flow that has
\* ended after it has queried the remote URL.
C1_ReleaseStopsUnlessSyncReturnsTrue ==
    action = "rls" =>
        /\ sndRet # Ok(TRUE) => NoReleaseStep
        /\ SyncSkipped => sndRet = Ok(TRUE)
        /\ (SyncSkipped /\ FlowEnded) => Invoked(Rls, "get_origin_url")

C1_Witness ==
    /\ action = "rls"
    /\ pc = "press_enter"
    /\ sndRet = Ok(FALSE)
    /\ Printed("Fluxo de trabalho de release abortado")

\* a step of the Sync or Release flow failed
StepFailed ==
    \E i \in DOMAIN calls :
        /\ calls[i].by \in {Snd, Rls}
        /\ calls[i].res \in Failures \cup {"load_err", "no_token", "send_fail",
                                           "api_error", "api_unparseable"}

\* C2: after a failure of any step of the Sync or Release flow the menu loop
\* does not end: show_main_menu has not returned, with an error or otherwise.
C2_FailureReturnsToMenu ==
    StepFailed => (pc # "terminated" /\ session = NoResult)

\* C3: in the Sync flow, when stage-all succeeded and the queried status has
\* no file with a staged change, run_snd_flow reports that nothing is staged
\* and returns, and the commit-message prompt, commit and push are not
\* invoked.
C3_NothingStagedSkips ==
    SyncSkipped =>
        /\ sndRet = Ok(TRUE)
        /\ Printed("Nenhuma alteracao no stage para commitar.")
        /\ ~Invoked(Snd, "get_commit_message")
        /\ ~Invoked(Snd, "commit")
        /\ ~Invoked(Snd, "push")
        /\ effects \cap {"committed", "pushed"} = {}

C3_Witness ==
    /\ SyncSkipped
    /\ action = "snd"
    /\ pc = "press_enter"
    /\ Len(status.files) > 0

CommitFailed == Ended(Snd, "add_all", {ExitOk}) /\ Ended(Snd, "commit", Failures)

\* C4: in the Sync flow, when stage-all succeeded and the commit command
\* could not be spawned or exited non-zero, run_snd_flow returns the error
\* and push is not invoked.
C4_CommitFailureStopsBeforePush ==
    CommitFailed =>
        /\ sndRet.kind = "Err"
        /\ ~Invoked(Snd, "push")
        /\ "pushed" \notin effects
        /\ pc \in {"snd_ret", "terminated"}

C4_Witness ==
    /\ CommitFailed
    /\ Ended(Snd, "commit", {NonZero})
    /\ pc = "terminated"

PushFailed == Ended(Snd, "commit", {ExitOk}) /\ Ended(Snd, "push", Failures)

PushFailTexts == {"Falha ao executar o comando 'git push'", "O comando 'git push' falhou"}

SndOrder == <<"add_all", "get_status", "get_commit_message", "commit", "push">>

RlsOrder == <<"get_origin_url", "get_commit_message", "get_release_notes",
              "create_annotated_tag", "push_tag", "create_release">>

\* the origin URLs of OriginTexts that name a GitHub repository
ResolvableOrigins ==
    { SshPrefix \o AcmeWidget \o GitSuffix \o <<"\n">>,
      HttpsPrefix \o AcmeWidget \o GitSuffix \o <<"\n">> }

\* the operation of a log entry succeeded
StepSucceeded(c) ==
    IF c.op = "get_origin_url" THEN c.res = ExitOk /\ c.text \in ResolvableOrigins
    ELSE IF c.op \in {"get_commit_message", "get_release_notes"}
    THEN c.res = "some" /\ HasVisibleChar(c.text)
    ELSE c.res \in {ExitOk, "2xx"}

\* C6: in a Release flow invocation the operations are invoked in the order
\* sync (add, status, message, commit, push), remote URL, tag name, notes,
\* create tag, push tag, publish, each at most once; an operation is invoked
\* only if the one before it succeeded and, for the release steps, only if
\* run_snd_flow returned Ok(true); success of the release is printed only
\* when all of them succeeded.
C6_ReleaseStepsInOrder ==
    action = "rls" =>
        LET S == CallsBy(Snd)
            R == CallsBy(Rls)
        IN /\ calls = S \o R
           /\ Len(S) <= Len(SndOrder)
           /\ \A i \in DOMAIN S : S[i].op = SndOrder[i]
           /\ Len(R) <= Len(RlsOrder)
           /\ \A i \in DOMAIN R : R[i].op = RlsOrder[i]
           /\ \A i \in DOMAIN S : i > 1 => StepSucceeded(S[i - 1])
           /\ \A i \in DOMAIN R : i > 1 => StepSucceeded(R[i - 1])
           /\ (R # <<>> \/ pc \in RlsPositions) => sndRet = Ok(TRUE)
           /\ Printed("Release criada com sucesso no GitHub!") =>
                /\ Len(R) = Len(RlsOrder)
                /\ \A i \in DOMAIN R : StepSucceeded(R[i])
                /\ TagEffects \subseteq effects

C6_Witness ==
    /\ action = "rls"
    /\ pc = "press_enter"
    /\ Printed("Release criada com sucesso no GitHub!")
    /\ Len(calls) = Len(SndOrder) + Len(RlsOrder)

ForwardOps ==
    {"add_all", "get_status", "get_commit_message", "commit", "push", "get_origin_url",
     "get_release_notes", "create_annotated_tag", "push_tag", "create_release"}

\* the side effect an operation completes when it succeeds
EffectOf(op) ==
    CASE op = "add_all" -> "staged"
      [] op = "commit" -> "committed"
      [] op = "push" -> "pushed"
      [] op = "create_annotated_tag" -> "tag_created"
      [] op = "push_tag" -> "tag_pushed"
      [] op = "create_release" -> "published"
      [] OTHER -> "none"

\* C7: no rollback: within a Sync or Release flow invocation the set of
\* completed side effects only grows, no operation other than the forward
\* steps is invoked, and the effect of every operation that succeeded is
\* still there after every later step, failed or not.
C7_NoRollback ==
    [][ pc # "press_enter" =>
          /\ effects \subseteq effects'
          /\ \A i \in DOMAIN calls' :
                calls'[i].by \in {Snd, Rls} =>
                    /\ calls'[i].op \in ForwardOps
                    /\ (calls'[i].res \in {ExitOk, "2xx"} /\ EffectOf(calls'[i].op) # "none")
                          => EffectOf(calls'[i].op) \in effects' ]_vars

C7_Witness ==
    /\ action = "rls"
    /\ pc = "press_enter"
    /\ Ended(Rls, "push_tag", Failures)
    /\ effects = {"staged", "committed", "pushed", "tag_created"}

AddFailed == Ended(Snd, "add_all", Failures)

\* C8: in the Sync flow, when the stage-all command fails, run_snd_flow
\* returns the error and no later operation (status query, commit-message
\* prompt, commit, push) is invoked.
C8_StageFailureStopsFlow ==
    AddFailed =>
        /\ sndRet.kind = "Err"
        /\ Len(calls) = 1
        /\ effects = {}
        /\ pc \in {"snd_ret", "terminated"}

C8_Witness ==
    /\ AddFailed
    /\ pc = "terminated"
    /\ session.kind = "Err"

MessageWithheld ==
    \E i \in DOMAIN calls :
        calls[i].by = Snd /\ calls[i].op = "get_commit_message" /\ Withheld(calls[i])

\* C9: in the Sync flow, when the commit message is cancelled, empty or
\* whitespace-only, run_snd_flow returns Ok(false) ("Commit cancelado"),
\* commit and push are not invoked, and what was staged stays staged.
C9_WithheldMessageAborts ==
    MessageWithheld =>
        /\ sndRet = Ok(FALSE)
        /\ Printed("Commit cancelado.")
        /\ ~Invoked(Snd, "commit")
        /\ ~Invoked(Snd, "push")
        /\ effects = {"staged"}

C9_Witness ==
    /\ \E i \in DOMAIN calls :
          calls[i].by = Snd /\ calls[i].op = "get_commit_message" /\ calls[i].text = <<" ">>
    /\ pc = "press_enter"

TagInputWithheld ==
    \E i \in DOMAIN calls :
        /\ calls[i].by = Rls
        /\ calls[i].op \in {"get_commit_message", "get_release_notes"}
        /\ Withheld(calls[i])

\* C10: in the Release flow, when the tag name or the release notes is
\* cancelled, empty or whitespace-only, the flow ends there and create-tag,
\* push-tag and publish are not invoked.
C10_WithheldTagInputAborts ==
    TagInputWithheld =>
        /\ pc = "press_enter"
        /\ ~Invoked(Rls, "create_annotated_tag")
        /\ ~Invoked(Rls, "push_tag")
        /\ ~Invoked(Rls, "create_release")
        /\ effects \cap TagEffects = {}
        /\ \/ Printed("Nome da tag invalido ou operacao cancelada.")
           \/ Printed("Notas da release vazias ou operacao cancelada.")

C10_Witness ==
    /\ \E i \in DOMAIN calls :
          calls[i].by = Rls /\ calls[i].op = "get_release_notes" /\ calls[i].text = <<" ">>
    /\ pc = "press_enter"

\* ------------------------------------------------------------------------
\* Properties of the wrapper functions (SpecFn)
\* ------------------------------------------------------------------------

\* the function under study was applied to the argument
Applied(fn) == input.fn = fn /\ pc # "fn_call"

\* v is s without its leading and trailing whitespace
IsTrimOf(v, s) ==
    /\ \E i \in 0..Len(s), j \in 0..Len(s) :
          /\ i + j <= Len(s)
          /\ v = SubSeq(s, i + 1, Len(s) - j)
          /\ \A k \in 1..i : s[k] \in Whitespace
          /\ \A k \in (Len(s) - j + 1)..Len(s) : s[k] \in Whitespace
    /\ v # <<>> => v[1] \notin Whitespace /\ v[Len(v)] \notin Whitespace

\* C11 as stated: when the push command exits successfully, the text
\* returned is the diagnostic-stream text if that is non-empty and otherwise
\* the primary-output text.
C11_TextFromEitherStream ==
    (Applied("push") /\ input.outcome = ExitOk) =>
        /\ result.kind = "Ok"
        /\ \/ result.v # <<>> /\ IsTrimOf(result.v, input.stderr)
           \/ IsTrimOf(<<>>, input.stderr) /\ IsTrimOf(result.v, input.stdout)

\* C11 amended: when the push command exits successfully, the text returned
\* is the trimmed diagnostic-stream text and nothing else; the primary output
\* is not read, so with a blank diagnostic stream the returned text is empty
\* whatever the primary output holds.
C11_TextFromDiagnosticStreamOnly ==
    (Applied("push") /\ input.outcome = ExitOk) =>
        /\ result.kind = "Ok"
        /\ IsTrimOf(result.v, input.stderr)

C11_Witness ==
    /\ Applied("push")
    /\ input.outcome = ExitOk
    /\ input.stderr = <<>>
    /\ input.stdout = <<"o", "k", "\n">>
    /\ result.kind = "Ok"
    /\ result.v = <<>>

KnownCodes == {"A", "M", "D", "R", "C", "T", "U", "?"}

\* the file lines the parser makes a record of
RecordRows == SelectSeq(input.rows, LAMBDA r : byte_len(r) >= 4)

BothAbsent(f) == f.staged_status = Absent /\ f.unstaged_status = Absent

\* C12 as stated: every record produced by the status parser has a staged
\* change or an unstaged change; no record with both absent is produced.
C12_EveryRecordHasAChange ==
    (Applied("parse") /\ result.kind = "Ok") =>
        \A i \in DOMAIN result.v.files : ~BothAbsent(result.v.files[i])

\* C12 amended: a record has both changes absent only when neither of the
\* two code characters of its line is one of the eight known codes; a line
\* with a known code gives a record with that change present.
C12_RecordOfKnownCodeHasAChange ==
    (Applied("parse") /\ result.kind = "Ok") =>
        /\ Len(result.v.files) = Len(RecordRows)
        /\ \A i \in DOMAIN result.v.files :
              BothAbsent(result.v.files[i]) <=>
                  (RecordRows[i][1] \notin KnownCodes /\ RecordRows[i][2] \notin KnownCodes)

C12_Witness ==
    /\ Applied("parse")
    /\ result.kind = "Ok"
    /\ input.rows = << <<"x", "y", " ", "a">>, <<"?", "?", " ", "a">> >>
    /\ BothAbsent(result.v.files[1])
    /\ ~BothAbsent(result.v.files[2])

\* the lines after the header that are shorter than 4 characters
ShortRows == {i \in DOMAIN input.rows : Len(input.rows[i]) < 4}

\* C13: for every input with at least one line the parser produces one
\* branch summary and as many records as there are lines, minus the header,
\* minus the lines after the header shorter than 4 characters.
C13_RecordCount ==
    (Applied("parse") /\ input.first # <<>>) =>
        /\ result.kind = "Ok"
        /\ Len(result.v.files) = Len(input.rows) - Cardinality(ShortRows)

IsRename(tr) ==
    /\ tr.staged = "Renamed" \/ tr.unstaged = "Renamed"
    /\ find(tr.path, RenameSep) # 0

\* the record of a triple, the path of a rename left open
SameTriple(f, tr) ==
    /\ f.staged_status = tr.staged
    /\ f.unstaged_status = tr.unstaged
    /\ ~IsRename(tr) => f.path = tr.path

\* every file line of the input encodes a triple of the given set
EncodedFrom(T) == \A i \in DOMAIN input.rows : \E tr \in T : input.rows[i] = EncodeLine(tr)

RoundTrip ==
    /\ result.kind = "Ok"
    /\ Len(result.v.files) = Len(input.rows)
    /\ \A i \in DOMAIN input.rows : \A tr \in Triples :
          input.rows[i] = EncodeLine(tr) => SameTriple(result.v.files[i], tr)

\* C14 as stated: every sequence of (path, staged, unstaged) triples,
\* encoded as lines after a header and parsed, gives records with the same
\* paths and kinds in the same order, a rename path apart.
C14_RoundTrip ==
    (Applied("parse") /\ input.first # <<>> /\ EncodedFrom(Triples)) => RoundTrip

\* paths that are not empty and do not begin with whitespace
PlainTriples == {tr \in Triples : tr.path # <<>> /\ tr.path[1] \notin Whitespace}

\* C14 amended: the round trip holds for the sequences of triples whose
\* paths are not empty and do not begin with whitespace: same kinds, same
\* paths (a rename path apart), same order.
C14_RoundTripOfPlainPaths ==
    (Applied("parse") /\ input.first # <<>> /\ EncodedFrom(PlainTriples)) => RoundTrip

C14_Witness ==
    /\ Applied("parse")
    /\ input.rows = << <<"M", " ", " ", "a">>, <<" ", "M", " ", "a">> \o RenameSep \o <<"b">> >>
    /\ result.kind = "Ok"
    /\ result.v.files[2].path = <<"a">> \o RenameSep \o <<"b">>
    /\ result.v.files[2].staged_status = Absent

\* the rename lines of the inputs: the codes, the old and the new path
RenameLines ==
    { [line |-> EncodeLine(tr), old |-> <<"a">>, new |-> <<"b">>] :
        tr \in {t \in Triples : IsRename(t) /\ t.path = <<"a">> \o RenameSep \o <<"b">>} }
    \cup { [line |-> RenameExample,
            old |-> <<"o", "l", "d", ".", "t", "x", "t">>,
            new |-> <<"n", "e", "w", ".", "t", "x", "t">>] }

\* every file line has two one-byte codes and a path: one record per line
OneRecordPerRow ==
    \A i \in DOMAIN input.rows :
        \/ \E tr \in Triples : tr.path # <<>> /\ input.rows[i] = EncodeLine(tr)
        \/ input.rows[i] = RenameExample

RenamePaths(wording) ==
    /\ result.kind = "Ok"
    /\ Len(result.v.files) = Len(input.rows)
    /\ \A i \in DOMAIN input.rows : \A rl \in RenameLines :
          input.rows[i] = rl.line =>
              result.v.files[i].path = rl.new \o wording \o rl.old \o <<")">>

\* C15 as stated: a rename line with path field "<old> -> <new>" parses to
\* one record whose path is "<new> (renamed from <old>)".
C15_RenamedFromEnglish ==
    (Applied("parse") /\ input.first # <<>> /\ OneRecordPerRow) =>
        RenamePaths(<<" ", "(", "r", "e", "n", "a", "m", "e", "d", " ", "f", "r", "o", "m", " ">>)

\* C15 amended: a rename line with path field "<old> -> <new>" parses to
\* one record whose path is "<new> (renomeado de <old>)".
C15_RenomeadoDe ==
    (Applied("parse") /\ input.first # <<>> /\ OneRecordPerRow) =>
        RenamePaths(<<" ", "(", "r", "e", "n", "o", "m", "e", "a", "d", "o", " ", "d", "e", " ">>)

C15_Witness ==
    /\ Applied("parse")
    /\ input.rows = << RenameExample >>
    /\ result.kind = "Ok"
    /\ Len(result.v.files) = 1
    /\ result.v.files[1].staged_status = "Renamed"
    /\ Take(result.v.files[1].path, 8) = <<"n", "e", "w", ".", "t", "x", "t", " ">>

\* C16: parsing the empty status text succeeds with an empty branch summary
\* and no file record.
C16_EmptyTextIsCleanState ==
    (Applied("parse") /\ input.first = <<>> /\ input.rows = <<>>) =>
        /\ result.kind = "Ok"
        /\ result.v.branch_info = <<>>
        /\ result.v.files = <<>>

C16_Witness ==
    /\ Applied("parse")
    /\ StatusText(input) = <<>>
    /\ pc = "fn_done"
    /\ result.kind = "Ok"

\* C17: the status parser is total: for every input text it returns a
\* repository state and never fails or aborts.
C17_ParserTotal ==
    Applied("parse") => result.kind = "Ok"

Acme == <<"a", "c", "m", "e">>

Widget == <<"w", "i", "d", "g", "e", "t">>

\* what the owner/repo part b of a GitHub URL stands for: the texts before
\* and after its first "/"
PairOf(b) ==
    LET cuts == {k \in DOMAIN b : b[k] = "/" /\ \A j \in 1..(k - 1) : b[j] # "/"}
    IN IF cuts = {} THEN <<>>
       ELSE LET k == CHOOSE c \in cuts : TRUE
            IN << <<SubSeq(b, 1, k - 1), SubSeq(b, k + 1, Len(b))>> >>

\* C18: the SSH and the HTTPS URL of acme/widget resolve to ("acme",
\* "widget"), the gitlab.com URL fails, and the SSH and HTTPS forms of one
\* owner/repo resolve to the same pair.
C18_BothFormsResolveAlike ==
    Applied("resolve") =>
        /\ input.url \in {SshPrefix \o AcmeWidget \o GitSuffix, HttpsPrefix \o AcmeWidget \o GitSuffix}
              => result.kind = "Ok" /\ result.v = <<Acme, Widget>>
        /\ input.url = GitlabPrefix \o AcmeWidget \o GitSuffix => result.kind = "Err"
        /\ \A b \in UrlBodies : \A p \in {SshPrefix, HttpsPrefix} :
              input.url = p \o b \o GitSuffix =>
                  IF PairOf(b) = <<>> THEN result.kind = "Err"
                  ELSE result.kind = "Ok" /\ result.v = PairOf(b)[1]

C18_Witness ==
    /\ Applied("resolve")
    /\ input.url = SshPrefix \o AcmeWidget \o GitSuffix
    /\ result.kind = "Ok"
    /\ result.v = <<Acme, Widget>>

\* the (owner, repo) pairs a URL decomposes into: one of the two prefixes,
\* an owner without "/", a "/", a repo, and ".git"
PairsOfUrl(url) ==
    { <<SubSeq(url, Len(p) + 1, k - 1), SubSeq(url, k + 1, Len(url) - Len(GitSuffix))>> :
        <<p, k>> \in
          { pk \in {SshPrefix, HttpsPrefix} \X DOMAIN url :
              /\ Len(url) >= Len(pk[1]) + 1 + Len(GitSuffix)
              /\ SubSeq(url, 1, Len(pk[1])) = pk[1]
              /\ pk[2] > Len(pk[1])
              /\ pk[2] <= Len(url) - Len(GitSuffix)
              /\ SubSeq(url, Len(url) - Len(GitSuffix) + 1, Len(url)) = GitSuffix
              /\ url[pk[2]] = "/"
              /\ \A j \in (Len(pk[1]) + 1)..(pk[2] - 1) : url[j] # "/" } }

\* C19: the resolver returns the complete (owner, repo) pair when the URL is
\* one of the two prefixes, a remainder with a "/" and ".git", and fails
\* otherwise; nothing in between is returned.
C19_AllOrNothing ==
    Applied("resolve") =>
        \/ result.kind = "Ok" /\ PairsOfUrl(input.url) = {result.v}
        \/ result.kind = "Err" /\ result.v = FALSE /\ PairsOfUrl(input.url) = {}

C19_Witness ==
    /\ Applied("resolve")
    /\ input.url = HttpsPrefix \o <<"a", "/", "a">>
    /\ result.kind = "Err"

TokenNotFound == "Token da API do GitHub nao encontrado"

\* C20: when the configuration holds no token, create_release fails with the
\* token-not-found error, and no HTTP request is sent in that call.
C20_NoTokenNoRequest ==
    /\ Ended(Rls, "create_release", {"no_token"}) =>
          /\ Printed(TokenNotFound)
          /\ "published" \notin effects
          /\ requests = <<>>
    /\ Printed(TokenNotFound) => requests = <<>>

C20_Witness ==
    /\ Ended(Rls, "create_release", {"no_token"})
    /\ Printed(TokenNotFound)
    /\ pc = "press_enter"

BranchFns == {"create_branch", "switch_branch"}

\* C21: create_branch and switch_branch fail without running git when the
\* name is empty or whitespace-only; otherwise they run git exactly once and
\* fail exactly when it cannot be spawned or exits non-zero, the error of a
\* non-zero exit carrying what git wrote on its stderr.
C21_BranchCommandGuarded ==
    (input.fn \in BranchFns /\ pc = "fn_done") =>
        IF ~HasVisibleChar(input.name)
        THEN result.kind = "Err" /\ calls = <<>>
        ELSE /\ Len(calls) = 1
             /\ calls[1].by = input.fn
             /\ HasVisibleChar(calls[1].text)
             /\ result.kind = "Err" <=> input.outcome \in Failures
             /\ input.outcome = NonZero =>
                   /\ Len(out) = 3
                   /\ IsTrimOf(out[3], input.stderr)

C21_Witness ==
    /\ input.fn = "switch_branch"
    /\ pc = "fn_done"
    /\ input.name = <<"m">>
    /\ input.outcome = NonZero
    /\ input.stderr = <<" ", "u", "p", " ", "\n">>
    /\ result.kind = "Err"
    /\ out[3] = <<"u", "p">>

\* the clone process has been spawned
Spawned == input.fn = "clone" /\ child.state # "none"

\* the lines of stderr printed by the reading loop
Forwarded == SelectSeq(out, LAMBDA x : x \in CloneLines)

TextLines(items) == SelectSeq(items, LAMBDA x : x \in CloneLines)

IsPrefix(a, b) == Len(a) <= Len(b) /\ a = SubSeq(b, 1, Len(a))

WaitBegun == Invoked("clone_repository", "wait")

WaitReturned == Ended("clone_repository", "wait", {ExitOk, NonZero, "wait_err"})

\* C22: during clone every line the process writes is printed once, in
\* order, while the process may still run; the wait for the exit status
\* begins only after the stream has ended; the clone succeeds exactly when
\* the exit status is success.
C22_CloneForwardsThenWaits ==
    Spawned =>
        /\ IsPrefix(Forwarded, TextLines(child.emitted))
        /\ WaitBegun => child.state \in {"closed", "exited", "reaped"} /\ child.pipe = <<>>
        /\ pc = "fn_done" =>
              /\ Forwarded = TextLines(input.script)
              /\ WaitBegun
              /\ input.wait = "ok" => (result.kind = "Ok" <=> input.status = ExitOk)

\* C30: once the process has been spawned, clone_repository does not return
\* before it has waited for the process.
C30_WaitsBeforeReturn ==
    (Spawned /\ pc = "fn_done") => WaitReturned

\* the ChangeType of each of the eight codes
CodeTable ==
    [c \in KnownCodes |->
        CASE c = "A" -> "Added" [] c = "M" -> "Modified" [] c = "D" -> "Deleted"
          [] c = "R" -> "Renamed" [] c = "C" -> "Copied" [] c = "T" -> "TypeChanged"
          [] c = "U" -> "Unmerged" [] c = "?" -> "Untracked"]

Decoded(c) == IF c \in KnownCodes THEN CodeTable[c] ELSE Absent

\* C23: decoding a status character is total: the eight codes map to their
\* kinds, blank and every other character to absent; the two characters of
\* a line are decoded independently of each other.
C23_DecodingIsTotal ==
    /\ Applied("decode") => result.kind = "Ok" /\ result.v = Decoded(input.c)
    /\ (Applied("parse") /\ input.first # <<>> /\ OneRecordPerRow) =>
          /\ result.kind = "Ok"
          /\ Len(result.v.files) = Len(input.rows)
          /\ \A i \in DOMAIN input.rows :
                /\ result.v.files[i].staged_status = Decoded(input.rows[i][1])
                /\ result.v.files[i].unstaged_status = Decoded(input.rows[i][2])

C23_Witness ==
    /\ Applied("decode")
    /\ input.c = "T"
    /\ result.kind = "Ok"
    /\ result.v = "TypeChanged"

\* triples with a Renamed kind whose path has no " -> "
BrokenRenames ==
    {tr \in PlainTriples :
        (tr.staged = "Renamed" \/ tr.unstaged = "Renamed") /\ find(tr.path, RenameSep) = 0}

\* C24: a line with a Renamed code whose path field has no " -> " is kept
\* and does not fail the parse: it gives one record with the path field as
\* its path and the decoded codes as its kinds.
C24_RenameWithoutSeparatorKept ==
    (Applied("parse") /\ input.first # <<>> /\ OneRecordPerRow) =>
        /\ result.kind = "Ok"
        /\ Len(result.v.files) = Len(input.rows)
        /\ \A i \in DOMAIN input.rows : \A tr \in BrokenRenames :
              input.rows[i] = EncodeLine(tr) =>
                  result.v.files[i] =
                      [path |-> tr.path, staged_status |-> tr.staged, unstaged_status |-> tr.unstaged]

C24_Witness ==
    /\ Applied("parse")
    /\ input.rows = << <<"R", " ", " ", "a">> >>
    /\ result.kind = "Ok"
    /\ result.v.files = << [path |-> <<"a">>, staged_status |-> "Renamed", unstaged_status |-> Absent] >>

UntrackedLines == {EncodeLine(tr) : tr \in {t \in Triples : t.staged = "Untracked" /\ t.path # <<>>}}

\* C25 as stated: an untracked line ("??") parses to a record with staged
\* change Untracked and unstaged change absent.
C25_UntrackedStagedOnly ==
    (Applied("parse") /\ input.first # <<>> /\ OneRecordPerRow) =>
        /\ result.kind = "Ok"
        /\ Len(result.v.files) = Len(input.rows)
        /\ \A i \in DOMAIN input.rows :
              input.rows[i] \in UntrackedLines =>
                  /\ result.v.files[i].staged_status = "Untracked"
                  /\ result.v.files[i].unstaged_status = Absent

\* C25 amended: an untracked line ("??") parses to a record with staged
\* change Untracked and unstaged change Untracked: each "?" is decoded.
C25_UntrackedInBothFields ==
    (Applied("parse") /\ input.first # <<>> /\ OneRecordPerRow) =>
        /\ result.kind = "Ok"
        /\ Len(result.v.files) = Len(input.rows)
        /\ \A i \in DOMAIN input.rows :
              input.rows[i] \in UntrackedLines =>
                  /\ result.v.files[i].staged_status = "Untracked"
                  /\ result.v.files[i].unstaged_status = "Untracked"

C25_Witness ==
    /\ Applied("parse")
    /\ input.rows = << <<"?", "?", " ", "a">> >>
    /\ result.kind = "Ok"
    /\ result.v.files[1].unstaged_status = "Untracked"

\* the first line without its "## " prefix, when it has one
WithoutPrefix(line) ==
    IF Len(line) >= 3 /\ line[1] = "#" /\ line[2] = "#" /\ line[3] = " "
    THEN SubSeq(line, 4, Len(line)) ELSE line

\* the state returned has the first line as its branch summary and records
\* of the other lines only
HeaderConsumed ==
    /\ result.v.branch_info = WithoutPrefix(input.first[1])
    /\ Len(result.v.files) = Len(RecordRows)

\* C26: for every non-empty input the first line is consumed as the branch
\* header and gives no record; the branch summary is that line without the
\* prefix "## ", the rest verbatim.
C26_FirstLineIsHeader ==
    (Applied("parse") /\ input.first # <<>>) =>
        /\ result.kind = "Ok"
        /\ HeaderConsumed

\* every entry of the status report is untracked or has no staged change
OnlyUntrackedOrUnstaged ==
    /\ Ended(Snd, "add_all", {ExitOk})
    /\ Ended(Snd, "get_status", {ExitOk})
    /\ status.files # <<>>
    /\ \A i \in DOMAIN status.files :
          \/ status.files[i].staged_status = "Untracked"
          \/ status.files[i].staged_status = Absent

\* C27: in the Sync flow a status report with only untracked and
\* unstaged-only files leads to Skipped: no commit-message prompt, no
\* commit, no push.
C27_UntrackedOnlySkips ==
    OnlyUntrackedOrUnstaged =>
        /\ ~Invoked(Snd, "get_commit_message")
        /\ ~Invoked(Snd, "commit")
        /\ ~Invoked(Snd, "push")

\* C28: in a Release flow invocation without a configured token no tag is
\* created and no tag is pushed.
C28_NoTokenNoTag ==
    Ended(Rls, "create_release", {"no_token"}) =>
        /\ "tag_created" \notin effects
        /\ "tag_pushed" \notin effects

HasSlash(t) == \E i \in DOMAIN t : t[i] = "/"

\* C29: whenever the resolver succeeds, owner and repo are both non-empty
\* and neither contains "/".
C29_OwnerAndRepoWellFormed ==
    (Applied("resolve") /\ result.kind = "Ok") =>
        /\ result.v[1] # <<>> /\ ~HasSlash(result.v[1])
        /\ result.v[2] # <<>> /\ ~HasSlash(result.v[2])

====
